---- MODULE Spec2Model ----
(***************************************************************************)
(* A model of launcher.py: the acquisition-and-launch pipeline of main().  *)
(* The disk under BASE_DIR and settings.json persist from one run of the   *)
(* program to the next; everything else is rebuilt by each run.            *)
(*                                                                         *)
(* Python dicts are functions with a domain of strings, so that a missing  *)
(* key is a key outside DOMAIN.  None is the empty function: the code only *)
(* ever tests such values for truth ("if native:", "if not                 *)
(* asset_index_info:"), and None and {} are both false.                    *)
(***************************************************************************)
EXTENDS Integers, Sequences, FiniteSets, TLC

(***************************************************************************)
(* Bounds of the model.                                                    *)
(***************************************************************************)
\* the number of runs of the program over the same disk
MaxRuns == 2
\* the largest number typed at the "Select a version by number" prompt
MaxSel == 3

(***************************************************************************)
(* Constants of launcher.py (lines 11-17).                                 *)
(***************************************************************************)
BASE_DIR == "minecraft"
LIBRARIES_DIR == BASE_DIR \o "/libraries"
ASSETS_DIR == BASE_DIR \o "/assets"
NATIVES_DIR == BASE_DIR \o "/natives"
JAVA_PATH == "java"
GAME_DIR == BASE_DIR
SETTINGS_FILE == BASE_DIR \o "/settings.json"

None == <<>>

\* the truth value Python gives a dict or None
Truthy(d) == DOMAIN d # {}

\* dict.get(key, default)
Get(d, key, default) == IF key \in DOMAIN d THEN d[key] ELSE default

\* str.join over a sequence of one-character strings
RECURSIVE Str(_)
Str(cs) == IF cs = <<>> THEN "" ELSE Head(cs) \o Str(Tail(cs))

\* Path / name
Join(dir, name) == dir \o "/" \o name

(***************************************************************************)
(* The remote documents the program reads.  A hash is a sequence of        *)
(* characters, so that hash_val[:2] is a prefix of it.                     *)
(***************************************************************************)
Hash1 == <<"a", "b", "c", "d">>
Hash2 == <<"0", "1", "e", "f">>

\* two libraries declare the same artifact; the second also has a native
\* bundle for linux and for windows
LibA == [name |-> "a", downloads |->
           [artifact |-> [url |-> "https://libs/a.jar", path |-> "a.jar"]]]
LibAN == [name |-> "an", downloads |->
           [artifact |-> [url |-> "https://libs/a.jar", path |-> "a.jar"],
            classifiers |->
              ("natives-linux" :> [url |-> "https://libs/n-linux.jar", path |-> "n-linux.jar"]
               @@ "natives-windows" :> [url |-> "https://libs/n-win.jar", path |-> "n-win.jar"])]]
\* a library whose classifiers name one platform only, and no artifact
LibW == [name |-> "w", downloads |->
           [classifiers |->
              ("natives-windows" :> [url |-> "https://libs/w-win.jar", path |-> "w-win.jar"])]]
\* a library with no "downloads" at all
LibPlain == [name |-> "plain"]

Meta1 == [id |-> "v1", mainClass |-> "net.minecraft.client.main.Main",
          downloads |-> [client |-> [url |-> "https://client/v1.jar"]],
          libraries |-> <<LibA, LibAN, LibW, LibPlain>>,
          assetIndex |-> [id |-> "ai1", url |-> "https://index/ai1.json"]]
\* a second document published under the same id, later in the manifest
Meta1b == [id |-> "v1", mainClass |-> "net.minecraft.client.Other",
           downloads |-> [client |-> [url |-> "https://client/v1b.jar"]],
           libraries |-> <<LibW>>,
           assetIndex |-> [id |-> "ai1", url |-> "https://index/ai1.json"]]
\* a snapshot whose metadata has no assetIndex
Meta2 == [id |-> "s2", mainClass |-> "net.minecraft.client.Minecraft",
          downloads |-> [client |-> [url |-> "https://client/s2.jar"]],
          libraries |-> <<LibW>>]

Manifest == [versions |-> <<[id |-> "s2", type |-> "snapshot", url |-> "https://meta/s2.json"],
                            [id |-> "v1", type |-> "release", url |-> "https://meta/v1.json"],
                            [id |-> "v1", type |-> "release", url |-> "https://meta/v1b.json"]>>]

MetadataDocs == "https://meta/v1.json" :> Meta1
                @@ "https://meta/v1b.json" :> Meta1b
                @@ "https://meta/s2.json" :> Meta2

\* names that share a hash, in the order of the index document
AssetIndexDocs == "https://index/ai1.json" :>
                    [objects |-> <<[name |-> "stone", hash |-> Hash1],
                                   [name |-> "dirt", hash |-> Hash1],
                                   [name |-> "grass", hash |-> Hash2]>>]

\* what platform.system() can return
Platforms == {"Linux", "Windows"}

\* str.lower() on the platform names
Lower(s) == CASE s = "Linux" -> "linux"
              [] s = "Windows" -> "windows"
              [] s = "Darwin" -> "darwin"
              [] OTHER -> s

\* what the user can type
ManualIds == {"v1", "s2", "v9"}
Usernames == {"Alex"}
\* a typed memory size: its text, and the number and the suffix int() and
\* endswith() find in it ("lots" has neither suffix)
RamInputs == {[text |-> "4G", num |-> 4, unit |-> "G"],
              [text |-> "64G", num |-> 64, unit |-> "G"],
              [text |-> "9000M", num |-> 9000, unit |-> "M"],
              [text |-> "lots", num |-> 0, unit |-> ""]}
\* psutil.virtual_memory().total // 1024^3
TotalMemGb == 8
\* what a child process can exit with
ChildStatuses == {0, 1, 137}

(***************************************************************************)
(* Destination paths.                                                      *)
(***************************************************************************)
\* launcher.py 114, 118: version_dir / f"{version_id}.jar"
client_path(vd) == Join(Join(Join(BASE_DIR, "versions"), vd.id), vd.id \o ".jar")

\* launcher.py 129, 135: LIBRARIES_DIR / Path(artifact["path"])
lib_path(artifact) == Join(LIBRARIES_DIR, artifact.path)

\* subdir, were it hash_val[:1]
subdir_one_char(hash) == Str(SubSeq(hash, 1, 1))

\* launcher.py 158: hash_val[:2]
subdir(hash) == Str(SubSeq(hash, 1, IF Len(hash) < 2 THEN Len(hash) ELSE 2))

\* launcher.py 159
asset_url(hash) == "https://resources.download.minecraft.net/" \o subdir(hash) \o "/" \o Str(hash)

\* launcher.py 160
target_path(hash) == Join(Join(Join(ASSETS_DIR, "objects"), subdir(hash)), Str(hash))

\* get_native_for_os, were it to fall back on a bundle of another platform
get_native_for_os_fallback(classifiers, platform) ==
  IF ("natives-" \o Lower(platform)) \in DOMAIN classifiers
  THEN classifiers["natives-" \o Lower(platform)]
  ELSE IF DOMAIN classifiers = {} THEN None
  ELSE classifiers[CHOOSE k \in DOMAIN classifiers : TRUE]

\* launcher.py 108-110
get_native_for_os(classifiers, platform) ==
  Get(classifiers, "natives-" \o Lower(platform), None)

\* launcher.py 132 and 171: the classifiers of a library, {} when it has none
classifiers_of(lib) == Get(Get(lib, "downloads", <<>>), "classifiers", <<>>)

Range(f) == {f[x] : x \in DOMAIN f}

\* every destination an artifact of the remote documents can have
AllPaths ==
  LET metas == Range(MetadataDocs)
      libs == UNION {Range(m.libraries) : m \in metas}
      arts == {l.downloads.artifact : l \in {x \in libs : "downloads" \in DOMAIN x
                                                    /\ "artifact" \in DOMAIN x.downloads}}
      nats == UNION {Range(classifiers_of(l)) : l \in libs}
      objs == UNION {Range(d.objects) : d \in Range(AssetIndexDocs)}
  IN {client_path(m) : m \in metas}
     \cup {lib_path(a) : a \in arts \cup nats}
     \cup {target_path(o.hash) : o \in objs}

(***************************************************************************)
(* State.                                                                  *)
(***************************************************************************)
VARIABLES
  os,            \* platform.system() of the machine
  disk,          \* every artifact destination: "absent", "partial" or "complete"
  settingsFile,  \* the content of settings.json, None when the file is absent
  disk0,         \* disk as it was when the current run started
  settingsFile0, \* settingsFile as it was when the current run started
  run,           \* the number of the current run of the program
  pc,            \* where main() is
  settings,      \* main's settings dict
  version_data,  \* main's version_data, None before resolution
  versions,      \* select_minecraft_version's list of offered versions
  username, xmx, xms,
  libIdx,        \* the position of the loops over version_data["libraries"]
  assetIdx,      \* the position of the loop over the asset index
  inflight,      \* the request download_file is waiting for, None when idle
  writing,       \* TRUE while download_file has the destination open
  natives,       \* the bundles extract_natives unpacked in this run
  warnings,      \* the bundles extract_natives warned about in this run
  args,          \* the argument vector of the spawned child, <<>> before the spawn
  childStatus,   \* the exit status of the child, -1 before it terminates
  exitStatus,    \* the exit status of the program, -1 while it runs
  log,           \* what this run did, in order
  script,        \* the program that runs: launcher.py or one of the two older scripts
  cwd,           \* os.getcwd() of the older scripts
  JavaPath,      \* the older scripts' JavaPath, "" before the lookup
  command        \* the older scripts' command line, "" before it is built

vars == <<os, disk, settingsFile, disk0, settingsFile0, run, pc, settings, version_data,
          versions, username, xmx, xms,
          libIdx, assetIdx, inflight, writing, natives, warnings, args, childStatus,
          exitStatus, log, script, cwd, JavaPath, command>>

\* the variables of universal.py and py2.py
legacyvars == <<script, cwd, JavaPath, command>>

\* the variables of one run that download_file and the loops around it own
dlvars == <<inflight, writing>>
\* what is left alone between resolution and the launch
uservars == <<settings, version_data, versions, username, xmx, xms>>
procvars == <<natives, warnings, args, childStatus>>

\* exists, were it is_dir(): never true of a file
exists_is_dir(path) == FALSE

\* exists, were it to count only files that were written to the end
exists_complete(path) == disk[path] = "complete"

\* Path.exists()
exists(path) == disk[path] # "absent"

\* an entry of the log
Ev(kind, what) == [kind |-> kind, what |-> what]

\* the contents of the native bundles on the server: the names of the entries
\* of each archive
BundleEntries == "n-linux.jar" :> {"liblwjgl.so", "META-INF/MANIFEST.MF"}
                 @@ "n-win.jar" :> {"lwjgl.dll", "META-INF/MANIFEST.MF"}
                 @@ "w-win.jar" :> {"x64/jinput.dll"}

\* the state at the first line of main()
StartOfRun ==
  /\ pc = "load_settings"
  /\ settings = None
  /\ version_data = None
  /\ versions = <<>>
  /\ username = "" /\ xmx = "" /\ xms = ""
  /\ libIdx = 1 /\ assetIdx = 1
  /\ inflight = None /\ writing = FALSE
  /\ natives = {} /\ warnings = {}
  /\ args = <<>>
  /\ childStatus = -1 /\ exitStatus = -1
  /\ log = <<>>

\* a settings.json kept from a time when the manifest still listed its version
StaleSettings == [version |-> "v0", username |-> "Steve", xmx |-> "1G", xms |-> "256M"]

\* a fresh install: no artifact under BASE_DIR, and no settings.json or an
\* old one
Init ==
  /\ os \in Platforms
  /\ disk = [p \in AllPaths |-> "absent"]
  /\ settingsFile \in {None, StaleSettings}
  /\ disk0 = disk
  /\ settingsFile0 = settingsFile
  /\ run = 1
  /\ StartOfRun
  /\ script = "launcher.py"
  /\ cwd = "."
  /\ JavaPath = "" /\ command = ""

\* Raise, were the exception caught and reported where it is raised
Raise_reported(exc) ==
  /\ pc' = pc
  /\ exitStatus' = exitStatus
  /\ log' = Append(log, Ev("raise", exc))

\* an uncaught exception: the traceback ends the program with status 1
Raise(exc) ==
  /\ pc' = "aborted"
  /\ exitStatus' = 1
  /\ log' = Append(log, Ev("raise", exc))

\* launcher.py 64: the report of an id that is not listed; the log keeps the
\* first report of each id
NotFound(version_id) ==
  IF \E i \in DOMAIN log : log[i] = Ev("version_not_found", version_id)
  THEN log
  ELSE Append(log, Ev("version_not_found", version_id))

(***************************************************************************)
(* Settings and version resolution.                                        *)
(***************************************************************************)
\* launcher.py 32-36
load_settings == settingsFile

\* launcher.py 219-225
main_load_settings ==
  /\ pc = "load_settings"
  /\ settings' = load_settings
  /\ pc' = IF "version" \in DOMAIN load_settings THEN "ask_last" ELSE "select"
  /\ log' = Append(log, Ev("load_settings", ""))
  /\ UNCHANGED <<legacyvars, os, disk0, settingsFile0, disk, settingsFile, run, version_data,
                 versions, username, xmx, xms,
                 libIdx, assetIdx, dlvars, procvars, exitStatus>>

\* find_version, were the loop to go on after a match: the last match wins
RECURSIVE find_version_last(_, _, _)
find_version_last(vs, version_id, i) ==
  IF i > Len(vs) THEN 0
  ELSE LET later == find_version_last(vs, version_id, i + 1) IN
       IF later # 0 THEN later
       ELSE IF vs[i].id = version_id THEN i ELSE 0

\* launcher.py 61-63 and 229-231: the first entry of the manifest with this id,
\* 0 when there is none
RECURSIVE find_version(_, _, _)
find_version(vs, version_id, i) ==
  IF i > Len(vs) THEN 0
  ELSE IF vs[i].id = version_id THEN i
  ELSE find_version(vs, version_id, i + 1)

\* launcher.py 226-233: the "Launch again?" prompt
main_use_last ==
  /\ pc = "ask_last"
  /\ \E answer \in {"", "y", "yes", "n"}, net \in {"ok", "manifest_fails", "metadata_fails"} :
       IF answer \in {"", "y", "yes"}
       THEN IF net = "manifest_fails"
            THEN Raise("ConnectionError") /\ UNCHANGED version_data
            ELSE LET i == find_version(Manifest.versions, settings["version"], 1) IN
                 IF i = 0
                 THEN /\ net = "ok"
                      /\ pc' = "select"
                      /\ log' = NotFound(settings["version"])
                      /\ UNCHANGED <<version_data, exitStatus>>
                 ELSE IF net = "metadata_fails"
                      THEN Raise("ConnectionError") /\ UNCHANGED version_data
                      ELSE /\ version_data' = MetadataDocs[Manifest.versions[i].url]
                           /\ pc' = "username"
                           /\ log' = Append(log, Ev("get_metadata", Manifest.versions[i].url))
                           /\ UNCHANGED exitStatus
       ELSE /\ net = "ok"
            /\ pc' = "select"
            /\ log' = log
            /\ UNCHANGED <<version_data, exitStatus>>
  /\ UNCHANGED <<legacyvars, os, disk0, settingsFile0, disk, settingsFile, run, settings,
                 versions, username, xmx, xms,
                 libIdx, assetIdx, dlvars, procvars>>

\* launcher.py 48: the versions offered by number
RECURSIVE offered(_, _)
offered(vs, show_snapshots) ==
  IF vs = <<>> THEN <<>>
  ELSE IF show_snapshots \/ Head(vs).type # "snapshot"
       THEN <<Head(vs)>> \o offered(Tail(vs), show_snapshots)
       ELSE offered(Tail(vs), show_snapshots)

\* launcher.py 45-52: the snapshots prompt and the manifest request
select_minecraft_version_start ==
  /\ pc = "select"
  /\ \E show_snapshots \in BOOLEAN, net \in {"ok", "manifest_fails"} :
       IF net = "manifest_fails"
       THEN Raise("ConnectionError") /\ UNCHANGED versions
       ELSE /\ versions' = offered(Manifest.versions, show_snapshots)
            /\ pc' = "select_loop"
            /\ log' = log
            /\ UNCHANGED exitStatus
  /\ UNCHANGED <<legacyvars, os, disk0, settingsFile0, disk, settingsFile, run, settings,
                 version_data, username, xmx, xms,
                 libIdx, assetIdx, dlvars, procvars>>

\* what can be typed at the two prompts of the loop: a number (and the id typed
\* after 0), or something int() rejects
Selections == {[number |-> TRUE, n |-> k, id |-> m] : k \in (-1) .. MaxSel, m \in ManualIds}
              \cup {[number |-> FALSE, n |-> 0, id |-> "v1"]}

\* a Python list index: valid from -len to len - 1
InRange(seq, i) == -Len(seq) <= i /\ i < Len(seq)
PyIndex(seq, i) == IF i >= 0 THEN seq[i + 1] ELSE seq[Len(seq) + i + 1]

\* launcher.py 54-66 and 236-237: one turn of the loop; the function's list of
\* versions is gone when it returns or raises
select_minecraft_version_loop ==
  /\ pc = "select_loop"
  /\ \E sel \in Selections, net \in {"ok", "metadata_fails"} :
       /\ sel.number
       /\ sel.n = 0 \/ InRange(versions, sel.n - 1)
       /\ LET version_id == IF sel.n = 0 THEN sel.id ELSE PyIndex(versions, sel.n - 1).id
              i == find_version(Manifest.versions, version_id, 1)
          IN IF i = 0
             THEN /\ net = "ok"
                  /\ log' = NotFound(version_id)
                  /\ UNCHANGED <<pc, version_data, versions, settings, exitStatus>>
             ELSE /\ versions' = <<>>
                  /\ IF net = "metadata_fails"
                     THEN Raise("ConnectionError") /\ UNCHANGED <<version_data, settings>>
                     ELSE /\ version_data' = MetadataDocs[Manifest.versions[i].url]
                          /\ settings' = ("version" :> version_data'.id) @@ settings
                          /\ pc' = "username"
                          /\ log' = Append(log, Ev("get_metadata", Manifest.versions[i].url))
                          /\ UNCHANGED exitStatus
  /\ UNCHANGED <<legacyvars, os, disk0, settingsFile0, disk, settingsFile, run, username, xmx, xms,
                 libIdx, assetIdx, dlvars, procvars>>

\* launcher.py 69-74 and 239
get_username ==
  /\ pc = "username"
  /\ \E use_last \in {"", "n"}, typed \in Usernames :
       LET last_username == Get(settings, "username", "Player") IN
       username' = IF use_last \in {"", "y", "yes"} THEN last_username ELSE typed
  /\ pc' = "ram"
  /\ UNCHANGED <<legacyvars, os, disk0, settingsFile0, disk, settingsFile, run, settings,
                 version_data, versions, xmx, xms,
                 libIdx, assetIdx, dlvars, procvars, exitStatus, log>>

\* launcher.py 86-99: whether parse_ram_input returns the typed value (it asks
\* again when it does not)
parse_ram_input(val) ==
  /\ val.unit \in {"G", "M"}
  /\ LET is_gb == val.unit = "G" IN
     ~ ((is_gb /\ val.num > TotalMemGb) \/ (~is_gb /\ val.num > TotalMemGb * 1024))

\* get_ram_allocation, were main to save the settings once they are chosen
get_ram_allocation_saving ==
  /\ pc = "ram"
  /\ \E use_last \in {"", "n"}, typed_xmx, typed_xms \in RamInputs :
       LET last_xmx == Get(settings, "xmx", "2G")
           last_xms == Get(settings, "xms", "512M")
       IN IF use_last \in {"", "y", "yes"}
          THEN xmx' = last_xmx /\ xms' = last_xms
          ELSE /\ parse_ram_input(typed_xmx) /\ parse_ram_input(typed_xms)
               /\ xmx' = typed_xmx.text /\ xms' = typed_xms.text
  /\ settings' = ("username" :> username) @@ ("xmx" :> xmx') @@ ("xms" :> xms') @@ settings
  /\ settingsFile' = settings'
  /\ pc' = "client"
  /\ UNCHANGED <<legacyvars, os, disk0, settingsFile0, disk, run, version_data, versions, username,
                 libIdx, assetIdx, dlvars, procvars, exitStatus, log>>

\* launcher.py 76-105 and 240-243
get_ram_allocation ==
  /\ pc = "ram"
  /\ \E use_last \in {"", "n"}, typed_xmx, typed_xms \in RamInputs :
       LET last_xmx == Get(settings, "xmx", "2G")
           last_xms == Get(settings, "xms", "512M")
       IN IF use_last \in {"", "y", "yes"}
          THEN xmx' = last_xmx /\ xms' = last_xms
          ELSE /\ parse_ram_input(typed_xmx) /\ parse_ram_input(typed_xms)
               /\ xmx' = typed_xmx.text /\ xms' = typed_xms.text
  /\ settings' = ("username" :> username) @@ ("xmx" :> xmx') @@ ("xms" :> xms') @@ settings
  /\ pc' = "client"
  /\ UNCHANGED <<legacyvars, os, disk0, settingsFile0, disk, settingsFile, run, version_data,
                 versions, username,
                 libIdx, assetIdx, dlvars, procvars, exitStatus, log>>

(***************************************************************************)
(* Downloads.  The program is one thread: a loop makes its next call only  *)
(* when the call before it has returned.                                   *)
(***************************************************************************)
libraries == version_data.libraries

\* launcher.py 139, 150: the index document of the version
asset_objects == AssetIndexDocs[version_data.assetIndex.url].objects

\* EnterLibraries, were main to go from the libraries straight to extract_natives
EnterLibraries_then_extract(i) ==
  /\ pc' = IF i > Len(libraries) THEN "extract" ELSE "lib_artifact"
  /\ libIdx' = IF i > Len(libraries) THEN 1 ELSE i
  /\ UNCHANGED assetIdx

\* the loop of lines 125-136 reaches library i, or ends and main goes on to
\* download_assets
EnterLibraries(i) ==
  /\ pc' = IF i > Len(libraries) THEN "asset_index" ELSE "lib_artifact"
  /\ libIdx' = i
  /\ UNCHANGED assetIdx

\* the loop of lines 170-179 reaches library i, or ends and main goes on to
\* launch_minecraft
EnterExtract(i) ==
  /\ pc' = IF i > Len(libraries) THEN "launch" ELSE "extract"
  /\ libIdx' = i

\* the loop of lines 156-165 reaches entry i, or ends and main goes on to
\* extract_natives
EnterAssets(i) ==
  IF i > Len(asset_objects)
  THEN assetIdx' = i /\ EnterExtract(1)
  ELSE assetIdx' = i /\ pc' = "asset" /\ UNCHANGED libIdx

\* control goes back to the caller of download_file, which goes on: lines
\* 121-125 after the client, 132 after an artifact, 125 after a native bundle,
\* 163 and 156 after an asset
Return(events) ==
  CASE pc = "client" ->
         /\ log' = Append(log \o events,
                          Ev("write", Join(Join(Join(BASE_DIR, "versions"), version_data.id),
                                           version_data.id \o ".json")))
         /\ EnterLibraries(1)
    [] pc = "lib_artifact" ->
         /\ log' = log \o events
         /\ pc' = "lib_native"
         /\ UNCHANGED <<libIdx, assetIdx>>
    [] pc = "lib_native" ->
         /\ log' = log \o events
         /\ EnterLibraries(libIdx + 1)
    [] pc = "asset" ->
         /\ log' = log \o events
         /\ EnterAssets(assetIdx + 1)

\* download_file, were it without its test for an existing destination
download_file_always(url, dest) ==
  /\ inflight = None
  /\ inflight' = [url |-> url, dest |-> dest]
  /\ log' = Append(log, Ev("get", dest))
  /\ UNCHANGED <<pc, libIdx, assetIdx>>
  /\ UNCHANGED <<legacyvars, os, disk0, settingsFile0, disk, settingsFile, run, uservars,
                 writing, procvars, exitStatus>>

\* launcher.py 20-26: the call, up to the request
download_file(url, dest) ==
  /\ inflight = None
  /\ IF exists(dest)
     THEN Return(<<Ev("skip", dest)>>) /\ UNCHANGED inflight
     ELSE /\ inflight' = [url |-> url, dest |-> dest]
          /\ log' = Append(log, Ev("get", dest))
          /\ UNCHANGED <<pc, libIdx, assetIdx>>
  /\ UNCHANGED <<legacyvars, os, disk0, settingsFile0, disk, settingsFile, run, uservars,
                 writing, procvars, exitStatus>>

\* download_file_response, were the exception swallowed and the loop to go on
download_file_response_swallowed ==
  /\ inflight # None /\ ~writing
  /\ \E net \in {"ok", "ConnectionError", "HTTPError"} :
       IF net = "ok"
       THEN /\ disk' = [disk EXCEPT ![inflight.dest] = "partial"]
            /\ writing' = TRUE
            /\ log' = Append(log, Ev("open", inflight.dest))
            /\ UNCHANGED <<inflight, pc, libIdx, assetIdx>>
       ELSE /\ Return(<<Ev("raise", net)>>)
            /\ inflight' = None
            /\ UNCHANGED <<disk, writing>>
  /\ UNCHANGED <<legacyvars, os, disk0, settingsFile0, settingsFile, run, uservars, procvars,
                 exitStatus>>

\* download_file_response, were the body streamed by a worker of a pool: the
\* call returns to the loop once the destination is open
download_file_response_detached ==
  /\ inflight # None /\ ~writing
  /\ \E net \in {"ok", "ConnectionError", "HTTPError"} :
       IF net = "ok"
       THEN /\ disk' = [disk EXCEPT ![inflight.dest] = "partial"]
            /\ Return(<<Ev("open", inflight.dest)>>)
            /\ UNCHANGED <<writing, exitStatus>>
       ELSE /\ Raise(net)
            /\ UNCHANGED <<disk, writing, libIdx, assetIdx>>
  /\ inflight' = None
  /\ UNCHANGED <<legacyvars, os, disk0, settingsFile0, settingsFile, run, uservars, procvars>>

\* launcher.py 26-28: the response arrives; requests.get or raise_for_status
\* raises, or the destination is opened for writing
download_file_response ==
  /\ inflight # None /\ ~writing
  /\ \E net \in {"ok", "ConnectionError", "HTTPError"} :
       IF net = "ok"
       THEN /\ disk' = [disk EXCEPT ![inflight.dest] = "partial"]
            /\ writing' = TRUE
            /\ log' = Append(log, Ev("open", inflight.dest))
            /\ UNCHANGED <<inflight, pc, exitStatus>>
       ELSE /\ Raise(net)
            /\ inflight' = None
            /\ UNCHANGED <<disk, writing>>
  /\ UNCHANGED <<legacyvars, os, disk0, settingsFile0, settingsFile, run, uservars, libIdx,
                 assetIdx, procvars>>

\* download_file_stream, were a broken connection passed over in silence
download_file_stream_swallowed ==
  /\ inflight # None /\ writing
  /\ \E net \in {"ok", "ChunkedEncodingError"} :
       IF net = "ok"
       THEN /\ disk' = [disk EXCEPT ![inflight.dest] = "complete"]
            /\ Return(<<Ev("close", inflight.dest)>>)
            /\ UNCHANGED exitStatus
       ELSE /\ Return(<<>>)
            /\ UNCHANGED <<disk, exitStatus>>
  /\ inflight' = None
  /\ writing' = FALSE
  /\ UNCHANGED <<legacyvars, os, disk0, settingsFile0, settingsFile, run, uservars, procvars>>

\* launcher.py 28-30: the body is streamed into the open file; iter_content
\* raises when the connection breaks, and what was written stays
download_file_stream ==
  /\ inflight # None /\ writing
  /\ \E net \in {"ok", "ChunkedEncodingError"} :
       IF net = "ok"
       THEN /\ disk' = [disk EXCEPT ![inflight.dest] = "complete"]
            /\ Return(<<Ev("close", inflight.dest)>>)
            /\ UNCHANGED exitStatus
       ELSE /\ Raise(net)
            /\ UNCHANGED <<disk, libIdx, assetIdx>>
  /\ inflight' = None
  /\ writing' = FALSE
  /\ UNCHANGED <<legacyvars, os, disk0, settingsFile0, settingsFile, run, uservars, procvars>>

\* launcher.py 113-119
download_client ==
  /\ pc = "client"
  /\ download_file(version_data.downloads.client.url, client_path(version_data))

\* no call of download_file: the loop goes on
NoDownload ==
  /\ inflight = None
  /\ Return(<<>>)
  /\ UNCHANGED <<legacyvars, os, disk0, settingsFile0, disk, settingsFile, run, uservars, dlvars,
                 procvars, exitStatus>>

\* launcher.py 125-130; a library without "downloads" is passed over whole
download_library_artifact ==
  /\ pc = "lib_artifact"
  /\ LET lib == libraries[libIdx] IN
     IF "downloads" \notin DOMAIN lib
     THEN /\ inflight = None
          /\ EnterLibraries(libIdx + 1)
          /\ UNCHANGED <<legacyvars, os, disk0, settingsFile0, disk, settingsFile, run, uservars,
                         dlvars, procvars,
                         exitStatus, log>>
     ELSE IF "artifact" \in DOMAIN lib.downloads
          THEN download_file(lib.downloads.artifact.url, lib_path(lib.downloads.artifact))
          ELSE NoDownload

\* launcher.py 132-136
download_library_native ==
  /\ pc = "lib_native"
  /\ LET native == get_native_for_os(classifiers_of(libraries[libIdx]), os) IN
     IF Truthy(native)
     THEN download_file(native.url, lib_path(native))
     ELSE NoDownload

\* launcher.py 139-155
download_assets_index ==
  /\ pc = "asset_index"
  /\ IF ~Truthy(Get(version_data, "assetIndex", None))
     THEN /\ EnterExtract(1)
          /\ log' = log
          /\ UNCHANGED <<assetIdx, exitStatus>>
     ELSE \E net \in {"ok", "ConnectionError", "HTTPError"} :
            IF net = "ok"
            THEN /\ EnterAssets(1)
                 /\ log' = log \o <<Ev("get_index", version_data.assetIndex.url),
                                    Ev("write", Join(Join(ASSETS_DIR, "indexes"),
                                                     version_data.assetIndex.id \o ".json"))>>
                 /\ UNCHANGED exitStatus
            ELSE Raise(net) /\ UNCHANGED <<libIdx, assetIdx>>
  /\ UNCHANGED <<legacyvars, os, disk0, settingsFile0, disk, settingsFile, run, uservars, dlvars,
                 procvars>>

\* launcher.py 156-165
download_asset ==
  /\ pc = "asset"
  /\ LET hash_val == asset_objects[assetIdx].hash IN
     IF ~exists(target_path(hash_val))
     THEN download_file(asset_url(hash_val), target_path(hash_val))
     ELSE /\ inflight = None
          /\ Return(<<Ev("exists", target_path(hash_val))>>)
          /\ UNCHANGED <<legacyvars, os, disk0, settingsFile0, disk, settingsFile, run, uservars,
                         dlvars, procvars, exitStatus>>

(***************************************************************************)
(* Extraction and launch.                                                  *)
(***************************************************************************)
\* extract_natives, were it without its except clause: BadZipFile leaves
\* the function
extract_natives_uncaught ==
  /\ pc = "extract"
  /\ inflight = None
  /\ LET native == get_native_for_os(classifiers_of(libraries[libIdx]), os) IN
     IF ~Truthy(native)
     THEN /\ EnterExtract(libIdx + 1)
          /\ log' = log
          /\ UNCHANGED <<natives, warnings, exitStatus>>
     ELSE LET native_path == lib_path(native) IN
          CASE disk[native_path] = "absent" ->
                 /\ Raise("FileNotFoundError")
                 /\ UNCHANGED <<natives, warnings, libIdx>>
            [] disk[native_path] = "partial" ->
                 /\ Raise("BadZipFile")
                 /\ UNCHANGED <<natives, warnings, libIdx>>
            [] disk[native_path] = "complete" ->
                 /\ natives' = natives \cup {Join(NATIVES_DIR, e) : e \in BundleEntries[native.path]}
                 /\ EnterExtract(libIdx + 1)
                 /\ log' = Append(log, Ev("extract", native_path))
                 /\ UNCHANGED <<warnings, exitStatus>>
  /\ UNCHANGED <<legacyvars, os, disk0, settingsFile0, disk, settingsFile, run, uservars,
                 assetIdx, dlvars, args, childStatus>>

\* launcher.py 170-179: one turn of the loop.  ZipFile raises BadZipFile on a
\* truncated archive, which is caught, and FileNotFoundError on a missing
\* one, which is not; extractall keeps the entries' names.
extract_natives ==
  /\ pc = "extract"
  /\ inflight = None
  /\ LET native == get_native_for_os(classifiers_of(libraries[libIdx]), os) IN
     IF ~Truthy(native)
     THEN /\ EnterExtract(libIdx + 1)
          /\ log' = log
          /\ UNCHANGED <<natives, warnings, exitStatus>>
     ELSE LET native_path == lib_path(native) IN
          CASE disk[native_path] = "absent" ->
                 /\ Raise("FileNotFoundError")
                 /\ UNCHANGED <<natives, warnings, libIdx>>
            [] disk[native_path] = "partial" ->
                 /\ warnings' = warnings \cup {native_path}
                 /\ EnterExtract(libIdx + 1)
                 /\ log' = Append(log, Ev("warning", native_path))
                 /\ UNCHANGED <<natives, exitStatus>>
            [] disk[native_path] = "complete" ->
                 /\ natives' = natives \cup {Join(NATIVES_DIR, e) : e \in BundleEntries[native.path]}
                 /\ EnterExtract(libIdx + 1)
                 /\ log' = Append(log, Ev("extract", native_path))
                 /\ UNCHANGED <<warnings, exitStatus>>
  /\ UNCHANGED <<legacyvars, os, disk0, settingsFile0, disk, settingsFile, run, uservars,
                 assetIdx, dlvars, args, childStatus>>

\* os.pathsep
pathsep == IF os = "Windows" THEN ";" ELSE ":"

\* str.join
RECURSIVE JoinWith(_, _)
JoinWith(sep, strs) ==
  IF strs = <<>> THEN ""
  ELSE IF Len(strs) = 1 THEN strs[1]
  ELSE strs[1] \o sep \o JoinWith(sep, Tail(strs))

\* launcher.py 182-187: the paths of the libraries that declare an artifact
RECURSIVE artifact_paths(_)
artifact_paths(libs) ==
  IF libs = <<>> THEN <<>>
  ELSE LET lib == Head(libs) IN
       (IF "downloads" \in DOMAIN lib /\ "artifact" \in DOMAIN lib.downloads
        THEN <<lib_path(lib.downloads.artifact)>>
        ELSE <<>>) \o artifact_paths(Tail(libs))

\* build_classpath, were the client jar put in front of the libraries
build_classpath_client_first(vd) ==
  JoinWith(pathsep, <<client_path(vd)>> \o artifact_paths(vd.libraries))

\* launcher.py 181-191
build_classpath(vd) ==
  JoinWith(pathsep, Append(artifact_paths(vd.libraries), client_path(vd)))

\* launch_args, were the two heap flags in the other order
launch_args_heap_swapped(vd, user, mx, ms) ==
  << JAVA_PATH,
     "-Xms" \o ms,
     "-Xmx" \o mx,
     "-Djava.library.path=" \o NATIVES_DIR,
     "-cp", build_classpath(vd),
     vd.mainClass,
     "--username", user,
     "--version", vd.id,
     "--gameDir", GAME_DIR,
     "--assetsDir", ASSETS_DIR,
     "--assetIndex", vd.assetIndex.id,
     "--accessToken", "0",
     "--uuid", "0" >>

\* launcher.py 198-212
launch_args(vd, user, mx, ms) ==
  << JAVA_PATH,
     "-Xmx" \o mx,
     "-Xms" \o ms,
     "-Djava.library.path=" \o NATIVES_DIR,
     "-cp", build_classpath(vd),
     vd.mainClass,
     "--username", user,
     "--version", vd.id,
     "--gameDir", GAME_DIR,
     "--assetsDir", ASSETS_DIR,
     "--assetIndex", vd.assetIndex.id,
     "--accessToken", "0",
     "--uuid", "0" >>

\* launcher.py 193-215, up to the spawn: version_data["assetIndex"] raises
\* KeyError when the metadata has none, subprocess.run raises when the
\* executable cannot be started
launch_minecraft ==
  /\ pc = "launch"
  /\ IF "assetIndex" \notin DOMAIN version_data
     THEN Raise("KeyError") /\ UNCHANGED args
     ELSE \E started \in BOOLEAN :
            IF started
            THEN /\ args' = launch_args(version_data, username, xmx, xms)
                 /\ pc' = "running"
                 /\ log' = Append(log, Ev("spawn", JAVA_PATH))
                 /\ UNCHANGED exitStatus
            ELSE Raise("FileNotFoundError") /\ UNCHANGED args
  /\ UNCHANGED <<legacyvars, os, disk0, settingsFile0, disk, settingsFile, run, uservars, libIdx,
                 assetIdx, dlvars,
                 natives, warnings, childStatus>>

\* launcher.py 215: subprocess.run waits for the child and returns a
\* CompletedProcess, which launch_minecraft drops
child_exits ==
  /\ pc = "running"
  /\ \E status \in ChildStatuses : childStatus' = status
  /\ pc' = "save"
  /\ log' = Append(log, Ev("child_exit", JAVA_PATH))
  /\ UNCHANGED <<legacyvars, os, disk0, settingsFile0, disk, settingsFile, run, uservars, libIdx,
                 assetIdx, dlvars,
                 natives, warnings, args, exitStatus>>

\* save_settings, were main to end with sys.exit(returncode)
save_settings_propagating ==
  /\ pc = "save"
  /\ settingsFile' = settings
  /\ pc' = "done"
  /\ exitStatus' = childStatus
  /\ log' = Append(log, Ev("save_settings", SETTINGS_FILE))
  /\ UNCHANGED <<legacyvars, os, disk0, settingsFile0, disk, run, uservars, libIdx, assetIdx,
                 dlvars, procvars>>

\* save_settings, were the version left out of what is written
save_settings_without_version ==
  /\ pc = "save"
  /\ settingsFile' = [k \in DOMAIN settings \ {"version"} |-> settings[k]]
  /\ pc' = "done"
  /\ exitStatus' = 0
  /\ log' = Append(log, Ev("save_settings", SETTINGS_FILE))
  /\ UNCHANGED <<legacyvars, os, disk0, settingsFile0, disk, run, uservars, libIdx, assetIdx,
                 dlvars, procvars>>

\* launcher.py 38-41 and 250-253: main returns and the interpreter exits with 0
save_settings ==
  /\ pc = "save"
  /\ settingsFile' = settings
  /\ pc' = "done"
  /\ exitStatus' = 0
  /\ log' = Append(log, Ev("save_settings", SETTINGS_FILE))
  /\ UNCHANGED <<legacyvars, os, disk0, settingsFile0, disk, run, uservars, libIdx, assetIdx,
                 dlvars, procvars>>

\* the program is started again on the same machine
next_run ==
  /\ pc \in {"done", "aborted"}
  /\ run < MaxRuns
  /\ run' = run + 1
  /\ pc' = "load_settings"
  /\ settings' = None
  /\ version_data' = None
  /\ versions' = <<>>
  /\ username' = "" /\ xmx' = "" /\ xms' = ""
  /\ libIdx' = 1 /\ assetIdx' = 1
  /\ inflight' = None /\ writing' = FALSE
  /\ natives' = {} /\ warnings' = {}
  /\ args' = <<>>
  /\ childStatus' = -1 /\ exitStatus' = -1
  /\ log' = <<>>
  /\ disk0' = disk
  /\ settingsFile0' = settingsFile
  /\ UNCHANGED <<legacyvars, os, disk, settingsFile>>

Next ==
  \/ main_load_settings
  \/ main_use_last
  \/ select_minecraft_version_start
  \/ select_minecraft_version_loop
  \/ get_username
  \/ get_ram_allocation
  \/ download_client
  \/ download_library_artifact
  \/ download_library_native
  \/ download_assets_index
  \/ download_asset
  \/ download_file_response
  \/ download_file_stream
  \/ extract_natives
  \/ launch_minecraft
  \/ child_exits
  \/ save_settings
  \/ next_run

Spec == Init /\ [][Next]_vars

\* a step of the fetch stage: download_client_and_libraries, download_assets
\* and the calls of download_file they make
Fetch ==
  \/ download_client
  \/ download_library_artifact
  \/ download_library_native
  \/ download_assets_index
  \/ download_asset
  \/ download_file_response
  \/ download_file_stream

\* the interpreter goes on with the next statement of the fetch stage, and
\* every request that was issued is answered and every body ends
FairSpec == Spec /\ WF_vars(Fetch)

(***************************************************************************)
(* launch_minecraft on its own: the call of line 248 for every metadata    *)
(* of a bounded family, on a machine where everything was downloaded.      *)
(***************************************************************************)
\* the longest list of libraries of these documents
MaxLibs == 3

\* a library with an artifact of its own
LibB == [name |-> "b", downloads |->
           [artifact |-> [url |-> "https://libs/b.jar", path |-> "b.jar"]]]

LibKinds == {LibA, LibB, LibAN, LibW, LibPlain}

\* version_data["libraries"]: every list of at most MaxLibs libraries
LibSeqs == UNION {[1 .. n -> LibKinds] : n \in 0 .. MaxLibs}

\* the metadata documents launch_minecraft is called with
MetadataInputs ==
  {[id |-> i, mainClass |-> "net.minecraft.client.main.Main",
    downloads |-> [client |-> [url |-> "https://client/" \o i \o ".jar"]],
    libraries |-> ls,
    assetIndex |-> [id |-> ai, url |-> "https://index/ai1.json"]] :
     i \in {"v1", "s2"}, ls \in LibSeqs, ai \in {"ai1", "17"}}

\* main at line 248: the stages before the launch have returned
LaunchInit ==
  /\ os \in Platforms
  /\ version_data \in MetadataInputs
  /\ username \in {"Alex", "Steve"}
  /\ xmx \in {"2G", "4096M"}
  /\ xms \in {"512M", "2G"}
  /\ settings = [version |-> version_data.id, username |-> username, xmx |-> xmx, xms |-> xms]
  /\ disk = [p \in AllPaths \cup {lib_path(LibB.downloads.artifact)} |-> "complete"]
  /\ settingsFile = None
  /\ disk0 = disk
  /\ settingsFile0 = settingsFile
  /\ run = 1
  /\ pc = "launch"
  /\ versions = <<>>
  /\ libIdx = Len(version_data.libraries) + 1
  /\ assetIdx = Len(asset_objects) + 1
  /\ inflight = None /\ writing = FALSE
  /\ natives = {} /\ warnings = {}
  /\ args = <<>>
  /\ childStatus = -1 /\ exitStatus = -1
  /\ log = <<>>
  /\ script = "launcher.py"
  /\ cwd = "."
  /\ JavaPath = "" /\ command = ""

LaunchNext == launch_minecraft \/ child_exits

LaunchSpec == LaunchInit /\ [][LaunchNext]_vars

(***************************************************************************)
(* universal.py and py2.py: two scripts for Minecraft 1.2.5 on macOS, the  *)
(* same statement by statement up to the way the command is run.           *)
(***************************************************************************)
Scripts == {"universal.py", "py2.py"}

\* what platform.system() can return where the scripts are started
LegacyPlatforms == {"Darwin", "Linux", "Windows"}

\* the directories the scripts are started in
WorkingDirs == {"/", "/Users/mc", "/Applications/Minecraft"}

\* what java_home -v 1.6 prints when it finds a Java 6
JavaHomes == {"/System/Library/Frameworks/JavaVM.framework/Versions/1.6.0/Home",
              "/Library/Java/JavaVirtualMachines/1.6.0.jdk/Contents/Home"}

\* how the call of java_home can end: with status 0 and a path, with
\* another status, or not at all where /usr/libexec/java_home is missing
JavaHomeOutcomes ==
  {[status |-> 0, out |-> h] : h \in JavaHomes}
  \cup {[status |-> s, out |-> ""] : s \in {1, 2}}
  \cup {[status |-> -1, out |-> "OSError"]}

\* what the shell that runs the command can exit with
ShellStatuses == {0, 1, 127, 137}

\* os.path.join of two parts on a system whose separator is "/"
os_path_join(a, b) == IF a = "/" THEN a \o b ELSE a \o "/" \o b

MCPath == os_path_join(cwd, "game")
MCBinPath == os_path_join(MCPath, "bin")
JVMArgs == "-Xmx2048M -Xms2048M"
MCUser == "MCUser"

\* universal.py 52, py2.py 52-61
launch_command(java) ==
  java \o " -cp " \o os_path_join(MCBinPath, "minecraft.jar")
       \o ":" \o os_path_join(MCBinPath, "lwjgl.jar")
       \o ":" \o os_path_join(MCBinPath, "lwjgl_util.jar")
       \o ":" \o os_path_join(MCBinPath, "jinput.jar")
       \o " -Djava.library.path=" \o os_path_join(MCBinPath, "natives")
       \o " " \o JVMArgs \o " net.minecraft.client.Minecraft --username " \o MCUser

\* sys.exit(status), or the end of the script
Exit(status, events) ==
  /\ pc' = "exited"
  /\ exitStatus' = status
  /\ log' = log \o events

\* what the scripts leave alone: the state of launcher.py
mainvars == <<disk, settingsFile, disk0, settingsFile0, run, settings, version_data, versions,
              username, xmx, xms, libIdx, assetIdx, inflight, writing, natives, warnings, args>>

\* the first statement of either script, on any machine
LegacyInit ==
  /\ script \in Scripts
  /\ os \in LegacyPlatforms
  /\ cwd \in WorkingDirs
  /\ pc = "platform_check"
  /\ JavaPath = "" /\ command = ""
  /\ childStatus = -1 /\ exitStatus = -1
  /\ log = <<>>
  /\ disk = [p \in AllPaths |-> "absent"]
  /\ settingsFile = None
  /\ disk0 = disk
  /\ settingsFile0 = settingsFile
  /\ run = 1
  /\ settings = None
  /\ version_data = None
  /\ versions = <<>>
  /\ username = "" /\ xmx = "" /\ xms = ""
  /\ libIdx = 1 /\ assetIdx = 1
  /\ inflight = None /\ writing = FALSE
  /\ natives = {} /\ warnings = {}
  /\ args = <<>>

\* platform_check, were sys.exit(1) left out after the error is logged
platform_check_logs_only ==
  /\ pc = "platform_check"
  /\ pc' = "java_lookup"
  /\ log' = IF os # "Darwin" THEN Append(log, Ev("error", "not macOS")) ELSE log
  /\ UNCHANGED <<mainvars, os, script, cwd, JavaPath, command, childStatus, exitStatus>>

\* universal.py 22-24, py2.py 22-24
platform_check ==
  /\ pc = "platform_check"
  /\ IF os # "Darwin"
     THEN Exit(1, <<Ev("error", "not macOS")>>)
     ELSE pc' = "java_lookup" /\ UNCHANGED <<exitStatus, log>>
  /\ UNCHANGED <<mainvars, os, script, cwd, JavaPath, command, childStatus>>

\* universal.py 32-38, py2.py 32-38: check_output raises CalledProcessError
\* on a status other than 0, which is caught, and OSError when the program
\* cannot be run, which is not: the traceback ends the script with status 1
java_lookup ==
  /\ pc = "java_lookup"
  /\ \E r \in JavaHomeOutcomes :
       CASE r.status = 0 ->
              /\ JavaPath' = os_path_join(os_path_join(r.out, "bin"), "java")
              /\ pc' = "launch_command"
              /\ log' = Append(log, Ev("info", "Java 6 found"))
              /\ UNCHANGED exitStatus
         [] r.status > 0 ->
              /\ Exit(1, <<Ev("error", "Java 6 is not installed")>>)
              /\ UNCHANGED JavaPath
         [] r.status < 0 ->
              /\ Exit(1, <<Ev("raise", r.out)>>)
              /\ UNCHANGED JavaPath
  /\ UNCHANGED <<mainvars, os, script, cwd, command, childStatus>>

\* universal.py 52-59, py2.py 52-68: the command is built and handed to the
\* shell
launch_legacy ==
  /\ pc = "launch_command"
  /\ command' = launch_command(JavaPath)
  /\ pc' = "shell"
  /\ log' = Append(log, Ev("spawn", command'))
  /\ UNCHANGED <<mainvars, os, script, cwd, JavaPath, childStatus, exitStatus>>

\* universal.py 58-63: subprocess.run(check=True) raises CalledProcessError
\* on a status other than 0, and the script ends with 1
universal_shell_exits ==
  /\ pc = "shell" /\ script = "universal.py"
  /\ \E status \in ShellStatuses :
       /\ childStatus' = status
       /\ IF status = 0
          THEN Exit(0, <<Ev("child_exit", command), Ev("info", "launched")>>)
          ELSE Exit(1, <<Ev("child_exit", command), Ev("error", "Failed to launch")>>)
  /\ UNCHANGED <<mainvars, os, script, cwd, JavaPath, command>>

\* py2.py 67-73: subprocess.call returns the status, which is dropped
py2_shell_exits ==
  /\ pc = "shell" /\ script = "py2.py"
  /\ \E status \in ShellStatuses :
       /\ childStatus' = status
       /\ Exit(0, <<Ev("child_exit", command), Ev("info", "launched")>>)
  /\ UNCHANGED <<mainvars, os, script, cwd, JavaPath, command>>

LegacyNext ==
  \/ platform_check
  \/ java_lookup
  \/ launch_legacy
  \/ universal_shell_exits
  \/ py2_shell_exits

LegacySpec == LegacyInit /\ [][LegacyNext]_vars

TypeOK ==
  /\ pc \in {"load_settings", "ask_last", "select", "select_loop", "username", "ram",
             "client", "lib_artifact", "lib_native", "asset_index", "asset", "extract",
             "launch", "running", "save", "done", "aborted"}
  /\ run \in 1 .. MaxRuns
  /\ \A p \in AllPaths : disk[p] \in {"absent", "partial", "complete"}

(***************************************************************************)
(* What a run did, read from its log.                                      *)
(***************************************************************************)
\* the log has an entry of this kind for this destination
Did(kind, what) == \E i \in DOMAIN log : log[i] = Ev(kind, what)

\* the number of such entries
Count(kind, what) == Cardinality({i \in DOMAIN log : log[i] = Ev(kind, what)})

Happened(kind) == \E i \in DOMAIN log : log[i].kind = kind

\* the destinations whose request was issued and ended by an exception:
\* nothing but the opening of the destination lies between the two
FailedDests ==
  {log[j - 1].what : j \in {k \in 2 .. Len(log) : /\ log[k].kind = "raise"
                                                    /\ log[k - 1].kind \in {"get", "open"}}}

Failed(dest) == dest \in FailedDests

Spawned == Happened("spawn")

Ended == pc \in {"done", "aborted"}

\* the entries of the log of this kind, in order
Of(kind) == SelectSeq(log, LAMBDA e : e.kind = kind)

\* no two entries of the sequence are for the same destination
Distinct(es) == \A i, j \in DOMAIN es : i < j => es[i].what # es[j].what

\* the native bundles of this metadata under the key of this platform
natives_of(vd, platform) ==
  {lib_path(classifiers_of(vd.libraries[i])["natives-" \o Lower(platform)]) :
     i \in {k \in DOMAIN vd.libraries :
              ("natives-" \o Lower(platform)) \in DOMAIN classifiers_of(vd.libraries[k])}}

\* the destinations a run for this metadata on this platform needs
RequiredOf(vd, platform) ==
  {client_path(vd)}
  \cup Range(artifact_paths(vd.libraries))
  \cup natives_of(vd, platform)
  \cup (IF "assetIndex" \in DOMAIN vd
        THEN {target_path(o.hash) : o \in Range(AssetIndexDocs[vd.assetIndex.url].objects)}
        ELSE {})

\* the same, worked out once for every document and platform
RequiredTable ==
  [vd \in Range(MetadataDocs) |-> [platform \in Platforms |-> RequiredOf(vd, platform)]]

Required(vd, platform) == RequiredTable[vd][platform]

\* the destinations of everything but the client jar
Others(vd, platform) == Required(vd, platform) \ {client_path(vd)}

(***************************************************************************)
(* C1.  When the download of the client jar fails, the run is aborted and  *)
(* no child process is spawned in it.                                      *)
(***************************************************************************)
C1_ClientFailureAborts ==
  (version_data # None /\ Failed(client_path(version_data)))
    => /\ pc = "aborted"
       /\ exitStatus = 1
       /\ ~Spawned
       /\ args = <<>>

C1_Witness ==
  /\ version_data # None
  /\ Failed(client_path(version_data))
  /\ Did("raise", "HTTPError")

(***************************************************************************)
(* C2.  As claimed: a failed download of a library, a native bundle or an  *)
(* asset is isolated, and the run still reaches the launch.                *)
(***************************************************************************)
C2_FailuresIsolated ==
  (Ended /\ version_data # None /\ "assetIndex" \in DOMAIN version_data
     /\ \E d \in Others(version_data, os) : Failed(d))
    => Spawned

(***************************************************************************)
(* C2, amended.  The first failed download of any artifact ends the run:   *)
(* no later download is attempted, nothing is extracted, no child is       *)
(* spawned, and the program exits with status 1.                           *)
(***************************************************************************)
C2_AnyFailureAborts ==
  FailedDests # {}
    => /\ pc = "aborted"
       /\ exitStatus = 1
       /\ ~Spawned
       /\ ~Happened("extract") /\ ~Happened("warning")
       /\ \A j \in DOMAIN log : log[j].kind = "raise" => j = Len(log)

C2_Witness ==
  /\ version_data # None
  /\ \E d \in Others(version_data, os) :
        /\ Failed(d)
        /\ \E e \in Required(version_data, os) : disk[e] = "absent" /\ ~Did("get", e)

(***************************************************************************)
(* C3.  As claimed: the program's exit status is the child's.              *)
(***************************************************************************)
C3_ExitStatusIsChilds ==
  (Ended /\ childStatus # -1) => exitStatus = childStatus

(***************************************************************************)
(* C3, amended.  The launch blocks until the child terminates, the child's *)
(* exit status is dropped, and the last act of the run is to save the      *)
(* settings: the program then exits with 0 whatever the child's status.    *)
(***************************************************************************)
C3_WaitsThenSavesAndExitsZero ==
  /\ (Spawned /\ childStatus = -1) => (pc = "running" /\ exitStatus = -1)
  /\ (Ended /\ Spawned)
       => /\ childStatus \in ChildStatuses
          /\ pc = "done"
          /\ exitStatus = 0
          /\ Len(log) >= 2
          /\ log[Len(log)].kind = "save_settings"
          /\ log[Len(log) - 1].kind = "child_exit"

C3_Witness == pc = "done" /\ childStatus = 137 /\ exitStatus = 0

\* the stage of main an entry of the log belongs to
Stage(kind) ==
  CASE kind = "load_settings" -> 0
    [] kind \in {"version_not_found", "get_metadata"} -> 1
    [] kind \in {"get", "open", "close", "skip", "exists", "write", "get_index"} -> 2
    [] kind \in {"extract", "warning"} -> 3
    [] kind = "spawn" -> 4
    [] kind = "child_exit" -> 5
    [] kind = "save_settings" -> 6
    [] kind = "raise" -> 7

\* the destinations of the entries of the log of these kinds
Dests(kinds) == {log[i].what : i \in {k \in DOMAIN log : log[k].kind \in kinds}}

\* the destinations that were found present or were fetched to the end
Settled == Dests({"skip", "exists", "close"})

(***************************************************************************)
(* C4.  The stages run in order.  Extraction starts only when no request   *)
(* is in flight and none is pending: every destination the run needs has   *)
(* been dealt with; and the child is spawned only when every native        *)
(* bundle of the platform has been through extraction.                     *)
(***************************************************************************)
C4_StagesInOrder ==
  /\ \A i \in 1 .. (Len(log) - 1) : Stage(log[i].kind) <= Stage(log[i + 1].kind)
  /\ (pc \in {"extract", "launch", "running", "save", "done"}
        \/ Happened("extract") \/ Happened("warning"))
       => /\ inflight = None /\ ~writing
          /\ Required(version_data, os) \subseteq Settled
          /\ Dests({"get"}) \subseteq Dests({"close"})
  /\ Spawned
       => natives_of(version_data, os) \subseteq Dests({"extract", "warning"})

C4_Witness ==
  /\ pc = "running"
  /\ Happened("close")
  /\ Happened("extract")

(***************************************************************************)
(* C5.  A destination that exists when a run starts is neither requested   *)
(* nor written by the run, and a run that finds every destination it needs *)
(* requests and writes no artifact at all.                                 *)
(***************************************************************************)
C5_Idempotent ==
  /\ \A d \in AllPaths : disk0[d] # "absent" => disk[d] = disk0[d]
  /\ \A i \in DOMAIN log :
        log[i].kind \in {"get", "open", "close"} => disk0[log[i].what] = "absent"
  /\ (Happened("get") \/ Happened("open") \/ disk # disk0)
       => \E d \in Required(version_data, os) : disk0[d] = "absent"

C5_Witness ==
  /\ pc = "done"
  /\ \A d \in Required(version_data, os) : disk0[d] # "absent"
  /\ Did("skip", client_path(version_data))
  /\ Happened("exists")

(***************************************************************************)
(* C6.  Within a run no destination is requested or opened more than once, *)
(* and a destination that was absent and is named by several entries is    *)
(* downloaded exactly once by a run that gets through its downloads.       *)
(***************************************************************************)
C6_Dedup ==
  /\ Distinct(Of("get")) /\ Distinct(Of("open")) /\ Distinct(Of("close"))
  /\ pc \in {"extract", "launch", "running", "save", "done"}
       => \A d \in Required(version_data, os) :
             disk0[d] = "absent" => /\ Count("get", d) = 1
                                    /\ Count("open", d) = 1
                                    /\ Count("close", d) = 1

\* the hash of "stone" and "dirt", and the artifact of two libraries
C6_Witness ==
  /\ pc = "done"
  /\ version_data = Meta1
  /\ disk0[target_path(Hash1)] = "absent"
  /\ Count("get", target_path(Hash1)) = 1
  /\ Did("exists", target_path(Hash1))
  /\ Count("get", lib_path(LibA.downloads.artifact)) = 1
  /\ Did("skip", lib_path(LibA.downloads.artifact))

(***************************************************************************)
(* C7.  A download interrupted after its destination was opened leaves a   *)
(* truncated file there, and a later run that finds the truncated file     *)
(* neither requests nor writes it: the file stays as it is.                *)
(***************************************************************************)
C7_NoResume ==
  /\ \A j \in 2 .. Len(log) :
        (log[j].kind = "raise" /\ log[j - 1].kind = "open")
          => disk[log[j - 1].what] = "partial"
  /\ \A d \in AllPaths : disk0[d] = "partial" => disk[d] = "partial"
  /\ \A i \in DOMAIN log :
        log[i].kind \in {"get", "open", "close"} => disk0[log[i].what] # "partial"

C7_Witness ==
  /\ run > 1
  /\ \E d \in AllPaths :
        /\ disk0[d] = "partial"
        /\ Did("skip", d) \/ Did("exists", d)
        /\ disk[d] = "partial"

(***************************************************************************)
(* C8.  As claimed: a run whose planning succeeded, so that it went on to  *)
(* fetch, leaves its version, username and memory values in settings.json. *)
(***************************************************************************)
C8_SavedAfterPlan ==
  (Ended /\ Happened("get")) => settingsFile = settings

(***************************************************************************)
(* C8, amended.  The settings are read before the version is resolved.     *)
(* settings.json is written only as the last step of a run in which every  *)
(* stage up to the child's termination returned, with that run's version   *)
(* id, username and memory values; until then it is as the run found it.   *)
(***************************************************************************)
C8_SavedOnlyAtEnd ==
  /\ \A i \in DOMAIN log : log[i].kind = "load_settings" <=> i = 1
  /\ pc = "done"
       => /\ settingsFile = settings
          /\ settingsFile = [version |-> version_data.id, username |-> username,
                             xmx |-> xmx, xms |-> xms]
  /\ pc # "done" => settingsFile = settingsFile0

C8_Witness ==
  /\ pc = "done"
  /\ Happened("close")
  /\ settingsFile0 # None
  /\ settingsFile.version # settingsFile0.version
  /\ settingsFile.username # settingsFile0.username

\* some library declares classifiers, none of them under the platform's key
Unmatched(vd, platform) ==
  \E i \in DOMAIN vd.libraries :
     LET cs == classifiers_of(vd.libraries[i]) IN
     DOMAIN cs # {} /\ ("natives-" \o Lower(platform)) \notin DOMAIN cs

(***************************************************************************)
(* C9.  As claimed: planning fails when a library has classifiers but none *)
(* for the platform, so that such a run never gets past its libraries.     *)
(***************************************************************************)
C9_UnsupportedPlatformRaised ==
  (version_data # None /\ Unmatched(version_data, os))
    => pc \notin {"asset_index", "asset", "extract", "launch", "running", "save", "done"}

\* the bundles a metadata declares for other platforms than this one
OtherBundlesOf(vd, platform) ==
  UNION {LET cs == classifiers_of(vd.libraries[k]) IN
         {lib_path(cs[key]) : key \in DOMAIN cs \ {"natives-" \o Lower(platform)}} :
         k \in DOMAIN vd.libraries}

OtherBundles ==
  [vd \in Range(MetadataDocs) |-> [platform \in Platforms |-> OtherBundlesOf(vd, platform)]]

(***************************************************************************)
(* C9, amended.  A library whose classifiers have no entry for the         *)
(* platform is passed over like one without classifiers: no bundle of      *)
(* another platform is requested, nothing is raised for it, and the run    *)
(* goes on; the only exceptions of a run are those of the network, of a    *)
(* metadata without asset index and of a child that cannot be started.     *)
(***************************************************************************)
C9_UnmatchedPassedOver ==
  /\ version_data # None
       => Dests({"get", "skip", "open"}) \cap OtherBundles[version_data][os] = {}
  /\ \A i \in DOMAIN log :
        log[i].kind = "raise"
          => log[i].what \in {"ConnectionError", "HTTPError", "ChunkedEncodingError",
                              "KeyError", "FileNotFoundError"}
  /\ (version_data # None /\ pc = "lib_native" /\ inflight # None)
       => ("natives-" \o Lower(os)) \in DOMAIN classifiers_of(libraries[libIdx])

C9_Witness ==
  /\ pc = "done"
  /\ os = "Linux"
  /\ version_data = Meta1
  /\ Unmatched(version_data, os)
  /\ Did("close", lib_path(LibAN.downloads.classifiers["natives-linux"]))

(***************************************************************************)
(* C10.  As claimed: an id the manifest does not list ends the run, with   *)
(* no metadata request, no download and no launch.                         *)
(***************************************************************************)
C10_NotFoundIsFatal ==
  Happened("version_not_found")
    => ~Happened("get_metadata") /\ ~Happened("get") /\ ~Spawned

(***************************************************************************)
(* C10, amended.  The id is matched exactly against the manifest in        *)
(* manifest order and the first match wins.  An id the manifest does not   *)
(* list causes no metadata request, but it is not fatal: the program asks  *)
(* again, and the run goes on with the next id that is listed.             *)
(***************************************************************************)
C10_FirstMatchAndAskAgain ==
  /\ \A i \in DOMAIN log :
        log[i].kind = "get_metadata"
          => \E k \in DOMAIN Manifest.versions :
                /\ Manifest.versions[k].url = log[i].what
                /\ \A j \in 1 .. (k - 1) : Manifest.versions[j].id # Manifest.versions[k].id
                /\ version_data = MetadataDocs[log[i].what]
                /\ version_data.id = Manifest.versions[k].id
  /\ \A i \in DOMAIN log :
        log[i].kind = "version_not_found"
          => /\ \A k \in DOMAIN Manifest.versions : Manifest.versions[k].id # log[i].what
             /\ \A j \in 1 .. i : log[j].kind # "get_metadata"
             /\ i = Len(log) => (pc \in {"select", "select_loop"} /\ exitStatus = -1)

C10_Witness ==
  /\ pc = "running"
  /\ Did("version_not_found", "v9")
  /\ Did("get_metadata", "https://meta/v1.json")

\* the bundle each library of a metadata declares for a platform, None where
\* it declares none
BundleAt ==
  [vd \in Range(MetadataDocs) |-> [platform \in Platforms |->
     [k \in DOMAIN vd.libraries |->
        LET cs == classifiers_of(vd.libraries[k])
            key == "natives-" \o Lower(platform)
        IN IF key \in DOMAIN cs THEN cs[key] ELSE None]]]

\* where the entries of each bundle lie once it is unpacked
Unpacked == [b \in DOMAIN BundleEntries |-> {Join(NATIVES_DIR, e) : e \in BundleEntries[b]}]

\* main has got as far as extract_natives: the loop over the asset index
\* has ended
ExtractEntered ==
  /\ version_data # None
  /\ "assetIndex" \in DOMAIN version_data
  /\ assetIdx > Len(asset_objects)

(***************************************************************************)
(* C11.  extract_natives never ends the run: a run that got as far as      *)
(* extraction and was aborted was aborted after the loop over the bundles  *)
(* had ended.  Every bundle the loop has passed is on the disk; a          *)
(* truncated one is warned about and left, every complete one is unpacked  *)
(* whatever became of the others, and the warnings are those bundles only. *)
(***************************************************************************)
C11_ExtractionNeverAborts ==
  ExtractEntered =>
    /\ pc = "aborted" => libIdx > Len(libraries)
    /\ \A k \in 1 .. (libIdx - 1) :
          LET b == BundleAt[version_data][os][k] IN
          Truthy(b) =>
            /\ disk[lib_path(b)] # "absent"
            /\ disk[lib_path(b)] = "partial" => lib_path(b) \in warnings
            /\ disk[lib_path(b)] = "complete" => Unpacked[b.path] \subseteq natives
    /\ warnings = Dests({"warning"})
    /\ \A w \in warnings : disk[w] = "partial"

\* on Windows the metadata has two bundles: the first was left truncated by
\* an earlier run, the second is unpacked and the child is started
C11_Witness ==
  /\ pc = "running"
  /\ os = "Windows"
  /\ warnings = {lib_path(LibAN.downloads.classifiers["natives-windows"])}
  /\ Did("extract", lib_path(LibW.downloads.classifiers["natives-windows"]))
  /\ Unpacked["w-win.jar"] \subseteq natives

\* main is in download_client_and_libraries or download_assets
InFetch == pc \in {"client", "lib_artifact", "lib_native", "asset_index", "asset"}

OneAtATime ==
  /\ \A i \in 1 .. (Len(log) - 1) :
        /\ log[i].kind = "get"
             => \/ log[i + 1] = Ev("open", log[i].what)
                \/ log[i + 1].kind = "raise"
        /\ log[i].kind = "open"
             => \/ log[i + 1] = Ev("close", log[i].what)
                \/ log[i + 1].kind = "raise"
  /\ IF inflight = None
     THEN log # <<>> => log[Len(log)].kind \notin {"get", "open"}
     ELSE /\ log # <<>>
          /\ log[Len(log)] \in {Ev("get", inflight.dest), Ev("open", inflight.dest)}

\* the fetch stage is over: every destination is there, or a request failed
\* and the run with it
FetchOver ==
  \/ /\ pc = "extract"
     /\ Required(version_data, os) \subseteq Settled
     /\ \A d \in Dests({"close"}) : disk[d] = "complete"
  \/ /\ pc = "aborted"
     /\ log[Len(log)].kind = "raise"

RECURSIVE Joined(_, _, _)
Joined(strs, sep, n) ==
  IF n = 0 THEN ""
  ELSE IF n = 1 THEN strs[1]
  ELSE Joined(strs, sep, n - 1) \o sep \o strs[n]

\* the libraries that declare an artifact, in the order of the metadata
WithArtifact(vd) ==
  SelectSeq(vd.libraries,
            LAMBDA l : "downloads" \in DOMAIN l /\ "artifact" \in DOMAIN l.downloads)

\* the classpath handed to the child
Classpath == args[6]

(***************************************************************************)
(* C13.  The classpath of the child is the path under LIBRARIES_DIR of     *)
(* every library that declares an artifact, in the order of the metadata   *)
(* and as often as it is declared, then the client jar                     *)
(* versions/<id>/<id>.jar, with the path separator of the platform between *)
(* them; a library without an artifact adds nothing.  The parts of a path  *)
(* are written with "/" between them on either platform.                   *)
(***************************************************************************)
C13_Classpath ==
  args # <<>> =>
    LET libs == WithArtifact(version_data)
        id == version_data.id
        entries == [i \in 1 .. Len(libs) |-> "minecraft/libraries/" \o libs[i].downloads.artifact.path]
                   \o <<"minecraft/versions/" \o id \o "/" \o id \o ".jar">>
        sep == IF os = "Windows" THEN ";" ELSE ":"
    IN /\ Classpath = Joined(entries, sep, Len(entries))
       /\ (version_data.libraries = <<LibA>> /\ id = "v1" /\ os = "Linux")
            => Classpath = "minecraft/libraries/a.jar:minecraft/versions/v1/v1.jar"
       /\ (version_data.libraries = <<LibB, LibA, LibAN>> /\ id = "s2" /\ os = "Windows")
            => Classpath = "minecraft/libraries/b.jar;minecraft/libraries/a.jar;"
                           \o "minecraft/libraries/a.jar;minecraft/versions/s2/s2.jar"
       /\ (\A k \in DOMAIN version_data.libraries : version_data.libraries[k] \in {LibW, LibPlain})
            => Classpath = "minecraft/versions/" \o id \o "/" \o id \o ".jar"

\* two libraries declare a.jar, after one that declares b.jar
C13_Witness ==
  /\ pc = "running"
  /\ os = "Windows"
  /\ version_data.libraries = <<LibB, LibA, LibAN>>
  /\ Classpath = "minecraft/libraries/b.jar;minecraft/libraries/a.jar;"
                 \o "minecraft/libraries/a.jar;minecraft/versions/" \o version_data.id
                 \o "/" \o version_data.id \o ".jar"

(***************************************************************************)
(* C14.  The argument vector of the child is, in this order: the java      *)
(* executable, -Xmx with the maximum heap, -Xms with the minimum heap,     *)
(* -Djava.library.path with the natives directory, -cp and the classpath,  *)
(* the main class of the metadata, then --username, --version, --gameDir,  *)
(* --assetsDir, --assetIndex, --accessToken 0 and --uuid 0, each flag      *)
(* followed by its value.                                                  *)
(***************************************************************************)
C14_ArgumentVector ==
  args # <<>> =>
    /\ Len(args) = 21
    /\ args[1] = "java"
    /\ args[2] = "-Xmx" \o xmx
    /\ args[3] = "-Xms" \o xms
    /\ args[4] = "-Djava.library.path=minecraft/natives"
    /\ args[5] = "-cp"
    /\ args[6] = build_classpath(version_data)
    /\ args[7] = version_data.mainClass
    /\ SubSeq(args, 8, 21) = << "--username", username,
                                "--version", version_data.id,
                                "--gameDir", "minecraft",
                                "--assetsDir", "minecraft/assets",
                                "--assetIndex", version_data.assetIndex.id,
                                "--accessToken", "0",
                                "--uuid", "0" >>

\* a child started with a maximum heap that is not its minimum heap, for a
\* metadata whose asset index id is not its version id
C14_Witness ==
  /\ pc = "running"
  /\ SubSeq(args, 1, 5) = <<"java", "-Xmx4096M", "-Xms512M",
                            "-Djava.library.path=minecraft/natives", "-cp">>
  /\ SubSeq(args, 8, 11) = <<"--username", "Steve", "--version", "s2">>
  /\ SubSeq(args, 16, 17) = <<"--assetIndex", "17">>

\* the last part of the name of an archive entry
EntryName ==
  [e \in UNION Range(BundleEntries) |->
     CASE e = "META-INF/MANIFEST.MF" -> "MANIFEST.MF"
       [] e = "x64/jinput.dll" -> "jinput.dll"
       [] OTHER -> e]

(***************************************************************************)
(* C15.  As claimed: the entries of an unpacked bundle lie directly in the *)
(* natives directory, under the last part of their names, and nowhere      *)
(* below it.                                                               *)
(***************************************************************************)
C15_ExtractionIsFlat ==
  \A i \in DOMAIN log :
     log[i].kind = "extract"
       => \A b \in DOMAIN BundleEntries :
             log[i].what = Join(LIBRARIES_DIR, b)
               => \A e \in BundleEntries[b] :
                     /\ Join(NATIVES_DIR, EntryName[e]) \in natives
                     /\ EntryName[e] # e => Join(NATIVES_DIR, e) \notin natives

\* the characters of a hash, written out from the left
RECURSIVE Written(_, _)
Written(hash, n) == IF n = 0 THEN "" ELSE Written(hash, n - 1) \o hash[n]

\* where the claim puts the object of a hash, and where it fetches it from
ObjectDest(hash) ==
  "minecraft/assets/objects/" \o hash[1] \o hash[2] \o "/" \o Written(hash, Len(hash))

ObjectUrl(hash) ==
  "https://resources.download.minecraft.net/" \o hash[1] \o hash[2] \o "/"
    \o Written(hash, Len(hash))

(***************************************************************************)
(* C16.  The destination of an asset object is                             *)
(* assets/objects/<first two characters of the hash>/<hash> and its        *)
(* address <asset host>/<first two characters>/<hash>: what                *)
(* download_assets requests, finds present or passes on is decided by the  *)
(* hash of the entry alone, so that two names with one hash have one       *)
(* destination.                                                            *)
(***************************************************************************)
C16_AssetPathFromHash ==
  (version_data # None /\ "assetIndex" \in DOMAIN version_data) =>
    /\ (pc = "asset" /\ inflight # None)
         => /\ inflight.dest = ObjectDest(asset_objects[assetIdx].hash)
            /\ inflight.url = ObjectUrl(asset_objects[assetIdx].hash)
    /\ \A k \in 1 .. (assetIdx - 1) :
          ObjectDest(asset_objects[k].hash) \in Dests({"close", "exists"})
    /\ Dests({"exists"}) \subseteq {ObjectDest(asset_objects[k].hash) : k \in DOMAIN asset_objects}
    /\ \A k \in DOMAIN asset_objects :
          /\ asset_objects[k].name \in {"stone", "dirt"}
               => ObjectDest(asset_objects[k].hash) = "minecraft/assets/objects/ab/abcd"
          /\ asset_objects[k].name = "grass"
               => ObjectDest(asset_objects[k].hash) = "minecraft/assets/objects/01/01ef"

\* "stone" was fetched, "dirt" was found where "stone" had been put, and
\* "grass" is on its way
C16_Witness ==
  /\ pc = "asset"
  /\ Did("close", "minecraft/assets/objects/ab/abcd")
  /\ Did("exists", "minecraft/assets/objects/ab/abcd")
  /\ inflight = [url |-> "https://resources.download.minecraft.net/01/01ef",
                 dest |-> "minecraft/assets/objects/01/01ef"]

(***************************************************************************)
(* C17.  In a run that has spawned the child, every destination the run    *)
(* needs (the client jar, the artifact of every library, the bundle of the *)
(* platform of every library, every object of the asset index) was there   *)
(* when the run started or was requested and written to its end in this    *)
(* run, and no request of the run has failed.                              *)
(***************************************************************************)
C17_LaunchImpliesArtifacts ==
  Spawned =>
    /\ \A d \in Required(version_data, os) :
          /\ disk0[d] # "absent" \/ d \in Dests({"close"})
          /\ disk[d] # "absent"
    /\ \A d \in Dests({"close"}) : disk0[d] = "absent" /\ disk[d] = "complete"
    /\ FailedDests = {}
    /\ ~Happened("raise")

\* the second run finds a file an interrupted download has left and fetches
\* the rest
C17_Witness ==
  /\ pc = "running"
  /\ \E d \in Required(version_data, os) : disk0[d] = "partial"
  /\ \E d \in Required(version_data, os) : disk0[d] = "absent" /\ Did("close", d)

(***************************************************************************)
(* C18.  A run writes settings.json at most once, as the step that follows *)
(* the termination of the child.  Until then the file is as the run found  *)
(* it: a run that an exception has ended, in whatever stage, has left it   *)
(* so, and what was chosen in that run is in no file.                      *)
(***************************************************************************)
C18_WrittenOnceAfterChild ==
  /\ \A i \in DOMAIN log :
        log[i].kind = "save_settings"
          => /\ i = Len(log) /\ i > 1
             /\ log[i - 1].kind = "child_exit"
             /\ childStatus # -1
             /\ \A j \in 1 .. (i - 1) : log[j].kind # "save_settings"
  /\ ~Happened("save_settings") => settingsFile = settingsFile0
  /\ Happened("raise")
       => /\ pc = "aborted"
          /\ settingsFile = settingsFile0
          /\ ~Happened("save_settings")

\* a download failed after a version, a name and memory values were chosen
\* that the file does not have
C18_Witness ==
  /\ pc = "aborted"
  /\ Happened("get")
  /\ settingsFile0 = StaleSettings
  /\ settingsFile = StaleSettings
  /\ settings.version = "v1"
  /\ settings.username = "Alex"
  /\ settings.xmx = "4G"

(***************************************************************************)
(* C19.  Either script runs its command only on Darwin and only with the   *)
(* path a successful java_home lookup gave it.  Where the platform is not  *)
(* Darwin, or the lookup has failed, the script has ended with status 1    *)
(* and no command was run.                                                 *)
(***************************************************************************)
C19_GuardsBeforeLaunch ==
  /\ (Spawned \/ command # "" \/ pc \in {"launch_command", "shell"})
       => /\ os = "Darwin"
          /\ \E h \in JavaHomes : JavaPath = h \o "/bin/java"
          /\ log[1] = Ev("info", "Java 6 found")
  /\ os # "Darwin"
       => /\ pc \in {"platform_check", "exited"}
          /\ pc = "exited" => exitStatus = 1
          /\ ~Spawned /\ childStatus = -1
  /\ (Did("error", "Java 6 is not installed") \/ Happened("raise"))
       => /\ pc = "exited" /\ exitStatus = 1
          /\ ~Spawned /\ childStatus = -1
  /\ (pc = "exited" /\ ~Spawned) => exitStatus = 1

\* py2.py on a Mac where java_home finds no Java 6
C19_Witness ==
  /\ script = "py2.py"
  /\ os = "Darwin"
  /\ pc = "exited"
  /\ exitStatus = 1
  /\ log = <<Ev("error", "Java 6 is not installed")>>
  /\ command = ""

====
